---- MODULE Spec2Model ----
(***************************************************************************)
(* SpriteGAN (network.py): the training orchestrator's step, its sample    *)
(* and reconstruct entry points, and checkpoint save / load with the       *)
(* retention policy, as a state machine.                                   *)
(*                                                                         *)
(* Parameter tensors are abstracted to version numbers (an optimizer step  *)
(* or a restore gives a sub-network a new version); gradients to the set   *)
(* of backward passes that deposited into them; tensors to their shapes;   *)
(* file names and paths are character sequences, formatted and parsed as   *)
(* the code formats and parses them.                                       *)
(***************************************************************************)
EXTENDS Integers, Sequences, FiniteSets, TLC

\* ------------------------------------------------------------------ bounds
MaxSaves == 1        \* save() calls in one run of Spec
MaxSteps == 1        \* forward() calls in one run of Spec
MaxEpoch == 1        \* epoch numbers passed to save() in Spec
MaxTrainSteps == 2   \* forward() calls in one run of SpecTrain
MaxCkptSaves == 4    \* save() calls in one run of SpecCkpt
MaxCkptEpoch == 4    \* epoch numbers passed to save() in SpecCkpt
MaxCkptSteps == 1    \* training steps in one run of SpecCkpt
SeqEpochs == 5       \* SpecInOrder saves epochs 1..SeqEpochs
batch_size == 2      \* constructor argument batch_size

\* ------------------------------------------------------- program constants
latent_dim == 100     \* default of SpriteGAN.__init__
NUM_TYPES == 18       \* imported from dataset; only used as the attribute width
ImageChannels == 3    \* input channels of the first convolutions
num_keep == 3 * 4

\* ------------------------------------------------------------ the networks
Nets == {"encoder", "decoder", "disc_image", "disc_latent"}
Generators == {"encoder", "decoder"}
Discriminators == {"disc_image", "disc_latent"}
Opts == {"opt_generator", "opt_disc_image", "opt_disc_latent"}

\* The parameters each optimizer was constructed over.
OptParams(opt) ==
  IF opt = "opt_generator" THEN {"encoder", "decoder"}
  ELSE IF opt = "opt_disc_image" THEN {"disc_image"}
  ELSE {"disc_latent"}

\* The order in which save() writes and load() reads the four sub-networks.
SaveOrder == <<"encoder", "decoder", "disc_image", "disc_latent">>

\* ------------------------------------------------- strings, names and paths
Digits == <<"0", "1", "2", "3", "4", "5", "6", "7", "8", "9">>
DigitSet == {Digits[i] : i \in 1..10}

\* "%i" % n, for n >= 0
RECURSIVE FormatInt(_)
FormatInt(n) ==
  IF n < 10 THEN <<Digits[n + 1]>>
  ELSE FormatInt(n \div 10) \o <<Digits[(n % 10) + 1]>>

Suffix(net) ==
  IF net = "encoder" THEN <<"_", "e", "n", "c", ".", "p", "t", "h">>
  ELSE IF net = "decoder" THEN <<"_", "d", "e", "c", ".", "p", "t", "h">>
  ELSE IF net = "disc_image"
    THEN <<"_", "d", "i", "s", "c", "_", "i", "m", "a", "g", "e", ".", "p", "t", "h">>
  ELSE <<"_", "d", "i", "s", "c", "_", "l", "a", "t", "e", "n", "t", ".", "p", "t", "h">>

\* "%i_enc.pth" % epoch and its three siblings
FileName(epoch, net) == FormatInt(epoch) \o Suffix(net)

\* os.path.join(d, name)
PathJoin(d, name) ==
  IF Len(d) = 0 THEN name
  ELSE IF d[Len(d)] = "/" THEN d \o name
  ELSE d \o <<"/">> \o name

\* s.split('_')[0]: the characters before the first underscore
RECURSIVE SplitFirst(_)
SplitFirst(s) ==
  IF Len(s) = 0 \/ Head(s) = "_" THEN <<>>
  ELSE <<Head(s)>> \o SplitFirst(Tail(s))

\* int(s) succeeds on a non-empty string of decimal digits (the alphabet of the
\* paths here has no sign and no blank) and raises ValueError otherwise.
IsInt(s) == Len(s) > 0 /\ \A i \in 1..Len(s) : s[i] \in DigitSet

DigitValue(c) == CHOOSE v \in 0..9 : Digits[v + 1] = c

RECURSIVE IntOf(_)
IntOf(s) ==
  IF Len(s) = 0 THEN 0
  ELSE 10 * IntOf(SubSeq(s, 1, Len(s) - 1)) + DigitValue(s[Len(s)])

\* The directory names a run may be given: "", "c" and "1_c".
Dirs == { <<>>, <<"c">>, <<"1", "_", "c">> }

VARIABLES
  dir,           \* the checkpoint directory name the run saves to and loads from
  files,         \* the *.pth files in it: <<epoch, net>> -> [mtime, data]
  now,           \* the filesystem clock (modification times are read from it)
  params,        \* net -> version of its parameters
  grads,         \* net -> the backward passes accumulated in its .grad
  optSteps,      \* optimizer -> number of step() calls it has made
  grad_enabled,  \* the caller's gradient mode (torch.is_grad_enabled())
  nsaves,        \* save() calls so far
  nforward,      \* forward() calls so far
  justSaved,     \* the epoch of the save() that was the previous call, else 0
  last           \* what the previous call did

vars == <<dir, files, now, params, grads, optSteps, grad_enabled,
          nsaves, nforward, justSaved, last>>

NoInput == [xb |-> 0, xc |-> 0, yb |-> 0, yw |-> 0]

\* The record a call leaves in `last`.
Outcome(op, raised, at, log, inp, epoch, missing) ==
  [op |-> op, raised |-> raised, at |-> at, log |-> log, inp |-> inp,
   epoch |-> epoch, missing |-> missing,
   pre |-> params, preOpt |-> optSteps, preGrads |-> grads,
   mode |-> grad_enabled, afterSave |-> justSaved]

\* One entry of a call's log.
Event(ev, who, mode, ver, nets, src) ==
  [ev |-> ev, who |-> who, mode |-> mode, ver |-> ver, nets |-> nets, src |-> src]

\* ------------------------------------------------------------ checkpoints
EpochFiles(e) == {<<e, n>> : n \in Nets}

\* How far the clock advances before each of the four writes of one save().
\* A fine-grained clock advances before every write; a coarse one can stand
\* still across the last write of one save() and the first two of the next.
FineClock == <<1, 1, 1, 1>>
TickPatterns == { FineClock, <<0, 0, 1, 1>> }

MtimeOfWrite(i, ticks) ==
  IF i = 1 THEN now + ticks[1]
  ELSE IF i = 2 THEN now + ticks[1] + ticks[2]
  ELSE IF i = 3 THEN now + ticks[1] + ticks[2] + ticks[3]
  ELSE now + ticks[1] + ticks[2] + ticks[3] + ticks[4]

WriteIndex(net) == CHOOSE i \in 1..4 : SaveOrder[i] = net

\* The four torch.save calls: each file is created or overwritten and takes
\* the clock's value as its modification time.
WriteCheckpoint(fs, epoch, ticks) ==
  [f \in DOMAIN fs \cup EpochFiles(epoch) |->
     IF f[1] = epoch
       THEN [mtime |-> MtimeOfWrite(WriteIndex(f[2]), ticks), data |-> params[f[2]]]
       ELSE fs[f]]

\* fs[:-num_keep] after fs.sort(key=os.path.getmtime), as a set.  glob returns
\* the files in an unspecified order and the sort is stable, so files of equal
\* modification time stay in listing order: every set of len(fs) - num_keep
\* files none of which is newer than a file outside the set can be the slice.
Removable(fs) ==
  LET all == DOMAIN fs
      k == IF Cardinality(all) > num_keep THEN Cardinality(all) - num_keep ELSE 0
      Before(t) == {f \in all : fs[f].mtime < t}
      UpTo(t) == {f \in all : fs[f].mtime <= t}
  IN IF k = 0 THEN {{}}
     ELSE LET t == CHOOSE u \in {fs[f].mtime : f \in all} :
                     Cardinality(Before(u)) < k /\ k <= Cardinality(UpTo(u))
              tied == UpTo(t) \ Before(t)
          IN {Before(t) \cup X : X \in {Y \in SUBSET tied :
                                          Cardinality(Y) = k - Cardinality(Before(t))}}

Remove(fs, D) == [f \in DOMAIN fs \ D |-> fs[f]]

\* save(save_dir, epoch)
save(epoch, ticks) ==
  /\ LET written == WriteCheckpoint(files, epoch, ticks)
     IN \E D \in Removable(written) : files' = Remove(written, D)
  /\ now' = MtimeOfWrite(4, ticks)
  /\ nsaves' = nsaves + 1
  /\ justSaved' = epoch
  /\ last' = Outcome("save", "none", 0, <<>>, NoInput, epoch, FALSE)
  /\ UNCHANGED <<dir, params, grads, optSteps, grad_enabled, nforward>>

\* Spec follows the training calls; it saves under a fine-grained clock.
Save ==
  /\ nsaves < MaxSaves
  /\ \E e \in 1..MaxEpoch : save(e, FineClock)

SaveCkpt ==
  /\ nsaves < MaxCkptSaves
  /\ \E e \in 1..MaxCkptEpoch, ticks \in TickPatterns : save(e, ticks)

\* Saving epochs 1, 2, 3, ... in that order.
SaveInOrder ==
  /\ nsaves < SeqEpochs
  /\ \E ticks \in TickPatterns : save(nsaves + 1, ticks)

\* fs[-1] after the sort by modification time: a newest file (the last listed
\* of them when several share the newest time).
Newest(fs) == {f \in DOMAIN fs : \A g \in DOMAIN fs : fs[g].mtime <= fs[f].mtime}

\* The four load_state_dict(torch.load(...)) calls, in order; the first
\* missing file raises and the sub-networks restored before it stay restored.
RECURSIVE RestoreFrom(_, _, _, _)
RestoreFrom(i, p, epoch, log) ==
  IF i > 4 THEN [raised |-> "none", params |-> p, log |-> log]
  ELSE IF <<epoch, SaveOrder[i]>> \notin DOMAIN files
    THEN [raised |-> "FileNotFoundError", params |-> p, log |-> log]
  ELSE RestoreFrom(i + 1,
                   [p EXCEPT ![SaveOrder[i]] = files[<<epoch, SaveOrder[i]>>].data],
                   epoch,
                   Append(log, Event("restore", SaveOrder[i], FALSE,
                                     files[<<epoch, SaveOrder[i]>>].data, {}, {})))

\* int(fs[-1].split('_')[0]): fs[-1] is the path glob returned, directory included.
EpochPrefix(f) == SplitFirst(PathJoin(dir, FileName(f[1], f[2])))

\* load(load_dir)
load ==
  /\ \/ /\ Len(dir) = 0
        /\ last' = Outcome("load", "none", 0, <<>>, NoInput, -1, FALSE)
        /\ UNCHANGED params
     \/ /\ Len(dir) > 0
        /\ DOMAIN files = {}
        /\ last' = Outcome("load", "IndexError", 0, <<>>, NoInput, -1, FALSE)
        /\ UNCHANGED params
     \/ /\ Len(dir) > 0
        /\ \E f \in Newest(files) :
             IF ~IsInt(EpochPrefix(f))
               THEN /\ last' = Outcome("load", "ValueError", 0, <<>>, NoInput, -1, FALSE)
                    /\ UNCHANGED params
               ELSE LET epoch == IntOf(EpochPrefix(f))
                        r == RestoreFrom(1, params, epoch, <<>>)
                    IN /\ params' = r.params
                       /\ last' = Outcome("load", r.raised, 0, r.log, NoInput, epoch,
                                          EpochFiles(epoch) \ DOMAIN files # {})
  /\ justSaved' = 0
  /\ UNCHANGED <<dir, files, now, grads, optSteps, grad_enabled, nsaves, nforward>>

\* ---------------------------------------------------------- tensor shapes
\* A call's result is the batch size of the tensor it returns, 0 when the call
\* raises on the shapes it is given.

\* Decoder.forward(z, y): torch.cat([z, y], dim=1) needs equal batch sizes and
\* self.fc takes latent_dim + NUM_TYPES input features.
DecoderShape(zb, zw, yb, yw) ==
  IF zb = yb /\ zw + yw = latent_dim + NUM_TYPES THEN zb ELSE 0

\* Encoder.forward(x): the first convolution takes ImageChannels channels.
EncoderShape(xb, xc) == IF xc = ImageChannels THEN xb ELSE 0

\* DiscriminatorImage.forward(x, y): conv_img takes ImageChannels channels,
\* conv_l takes NUM_TYPES channels, torch.cat needs equal batch sizes.
DiscImageShape(xb, xc, yb, yw) ==
  IF xc = ImageChannels /\ yw = NUM_TYPES /\ xb = yb THEN xb ELSE 0

\* DiscriminatorLatent.forward(z): the first layer takes latent_dim features.
DiscLatentShape(zb, zw) == IF zw = latent_dim THEN zb ELSE 0

\* F.binary_cross_entropy_with_logits(conf, label): the label tensors were
\* allocated with batch_size entries at construction.
LossShapeOk(confb) == confb > 0 /\ confb = batch_size

\* ---------------------------------------------------------- gradient modes
\* `with torch.no_grad():` around the Phase D targets
TargetGradMode(mode) == FALSE

\* sample() without its no_grad block: the decode runs in the caller's mode.
SampleGradModeOfCaller(mode) == mode

\* `with torch.no_grad():` in sample()
SampleGradMode(mode) == FALSE

\* reconstruct() wrapped in a no_grad block of its own.
ReconstructGradModeOff(mode) == FALSE

\* reconstruct() sets no gradient mode: its calls run in the caller's
ReconstructGradMode(mode) == mode

\* --------------------------------------------------------------- forward()
\* forward() with the generator phase written before the discriminator phase.
ProgramGeneratorFirst ==
  << "zero_grad_generator", "z2", "gen_forward", "gen_scores",
     "gen_backward", "step_generator",
     "zero_grad_latent", "zero_grad_image", "z",
     "x_hat", "z_hat", "x_tilde", "z_tilde",
     "disc_scores", "disc_backward", "step_latent", "step_image" >>

\* The statements of forward(), in program order.
Program ==
  << "zero_grad_latent", "zero_grad_image", "z",
     "x_hat", "z_hat", "x_tilde", "z_tilde",
     "disc_scores", "disc_backward", "step_latent", "step_image",
     "zero_grad_generator", "z2", "gen_forward", "gen_scores",
     "gen_backward", "step_generator" >>

\* The statements in which a fatal error of the runtime (out of memory, a
\* device error) is injected: those that allocate or compute.
FailPoints == {"disc_scores", "step_latent", "step_image", "gen_backward",
               "step_generator"}

\* The image and attribute batches a step is called with.
Shape(xb, xc, yb, yw) == [xb |-> xb, xc |-> xc, yb |-> yb, yw |-> yw]
ValidInput == Shape(batch_size, ImageChannels, batch_size, NUM_TYPES)
Inputs ==
  { ValidInput,
    Shape(batch_size, 1, batch_size, NUM_TYPES),
    Shape(batch_size, ImageChannels, batch_size, NUM_TYPES + 1),
    Shape(batch_size + 1, ImageChannels, batch_size, NUM_TYPES),
    Shape(batch_size, ImageChannels, batch_size + 1, NUM_TYPES),
    Shape(batch_size + 1, ImageChannels, batch_size + 1, NUM_TYPES) }

\* zero_grad() that leaves the accumulated gradients in place.
ZeroGradKeeps(r, opt) ==
  [r EXCEPT !.log = Append(r.log, Event("zero_grad", opt, FALSE, 0, OptParams(opt), {}))]

ZeroGrad(r, opt) ==
  [r EXCEPT !.grads = [n \in Nets |-> IF n \in OptParams(opt) THEN {} ELSE r.grads[n]],
            !.log = Append(r.log, Event("zero_grad", opt, FALSE, 0, OptParams(opt), {}))]

\* optimizer.step(): every parameter of the optimizer that holds a gradient
\* is updated with it.
StepOpt(r, opt) ==
  LET stepped == {n \in OptParams(opt) : r.grads[n] # {}}
  IN [r EXCEPT !.params = [n \in Nets |-> IF n \in stepped THEN r.params[n] + 1
                                          ELSE r.params[n]],
               !.optSteps[opt] = r.optSteps[opt] + 1,
               !.log = Append(r.log, Event("step", opt, FALSE, 0, stepped,
                                           UNION {r.grads[n] : n \in OptParams(opt)}))]

\* A sub-network called on a tensor: the log keeps the gradient mode of the
\* call and the parameter version it read.
Call(r, net, mode) ==
  [r EXCEPT !.log = Append(r.log, Event("forward", net, mode, r.params[net], {net}, {}))]

\* loss.backward(): the gradient reaches the parameters of every sub-network
\* the loss was computed from with gradient tracking on.
Backward(r, phase, reached) ==
  [r EXCEPT !.grads = [n \in Nets |-> IF n \in reached
                                      THEN r.grads[n] \cup {<<nforward + 1, phase>>}
                                      ELSE r.grads[n]],
            !.log = Append(r.log, Event("backward", phase, FALSE, 0, reached, {}))]

\* The sub-networks Phase D's loss reaches: the discriminators, and the
\* generator networks only if the targets were computed with tracking on.
DiscLossReaches(r) == Discriminators \cup (IF r.tracked THEN Generators ELSE {})

\* Shape checking that Phase D lacks: a malformed batch raises only when the
\* generator phase runs the encoder and decoder on it.
ShapeErrorInPhaseGOnly(stmt, r, inp) ==
  /\ stmt = "gen_forward"
  /\ \/ DecoderShape(batch_size, latent_dim, inp.yb, inp.yw) = 0
     \/ EncoderShape(inp.xb, inp.xc) = 0
     \/ DecoderShape(EncoderShape(inp.xb, inp.xc), latent_dim, inp.yb, inp.yw) = 0

\* Whether statement `stmt` raises on the shapes of its operands.
ShapeError(stmt, r, inp) ==
  IF stmt = "x_hat" THEN DecoderShape(batch_size, latent_dim, inp.yb, inp.yw) = 0
  ELSE IF stmt = "z_hat" THEN EncoderShape(inp.xb, inp.xc) = 0
  ELSE IF stmt = "x_tilde" THEN DecoderShape(r.zhat, latent_dim, inp.yb, inp.yw) = 0
  ELSE IF stmt = "z_tilde" THEN EncoderShape(r.xhat, ImageChannels) = 0
  ELSE IF stmt \in {"disc_scores", "gen_scores"} THEN
    \/ stmt = "disc_scores"
         /\ ~ LossShapeOk(DiscImageShape(inp.xb, inp.xc, inp.yb, inp.yw))
    \/ ~ LossShapeOk(DiscImageShape(r.xhat, ImageChannels, inp.yb, inp.yw))
    \/ ~ LossShapeOk(DiscImageShape(r.xtilde, ImageChannels, inp.yb, inp.yw))
    \/ stmt = "disc_scores" /\ ~ LossShapeOk(DiscLatentShape(batch_size, latent_dim))
    \/ ~ LossShapeOk(DiscLatentShape(r.zhat, latent_dim))
    \/ ~ LossShapeOk(DiscLatentShape(r.ztilde, latent_dim))
    \/ stmt = "gen_scores" /\ r.xtilde # inp.xb
  ELSE IF stmt = "gen_forward" THEN
    \/ DecoderShape(batch_size, latent_dim, inp.yb, inp.yw) = 0
    \/ EncoderShape(inp.xb, inp.xc) = 0
    \/ DecoderShape(EncoderShape(inp.xb, inp.xc), latent_dim, inp.yb, inp.yw) = 0
  ELSE FALSE

\* backward() raises when the loss was computed with gradient tracking off.
GradError(stmt, r) ==
  stmt \in {"disc_backward", "gen_backward"} /\ ~ r.mode

\* The effect of statement `stmt` when it does not raise.
Exec(stmt, r, inp) ==
  IF stmt = "zero_grad_latent" THEN ZeroGrad(r, "opt_disc_latent")
  ELSE IF stmt = "zero_grad_image" THEN ZeroGrad(r, "opt_disc_image")
  ELSE IF stmt \in {"z", "z2"} THEN r
  ELSE IF stmt = "x_hat" THEN
    [Call(r, "decoder", TargetGradMode(r.mode)) EXCEPT
       !.xhat = DecoderShape(batch_size, latent_dim, inp.yb, inp.yw),
       !.tracked = r.tracked \/ TargetGradMode(r.mode)]
  ELSE IF stmt = "z_hat" THEN
    [Call(r, "encoder", TargetGradMode(r.mode)) EXCEPT
       !.zhat = EncoderShape(inp.xb, inp.xc),
       !.tracked = r.tracked \/ TargetGradMode(r.mode)]
  ELSE IF stmt = "x_tilde" THEN
    [Call(r, "decoder", TargetGradMode(r.mode)) EXCEPT
       !.xtilde = DecoderShape(r.zhat, latent_dim, inp.yb, inp.yw),
       !.tracked = r.tracked \/ TargetGradMode(r.mode)]
  ELSE IF stmt = "z_tilde" THEN
    [Call(r, "encoder", TargetGradMode(r.mode)) EXCEPT
       !.ztilde = EncoderShape(r.xhat, ImageChannels),
       !.tracked = r.tracked \/ TargetGradMode(r.mode)]
  ELSE IF stmt = "disc_scores" THEN
    Call(Call(Call(Call(Call(Call(r, "disc_image", r.mode), "disc_image", r.mode),
      "disc_image", r.mode), "disc_latent", r.mode), "disc_latent", r.mode),
      "disc_latent", r.mode)
  ELSE IF stmt = "disc_backward" THEN Backward(r, "D", DiscLossReaches(r))
  ELSE IF stmt = "step_latent" THEN StepOpt(r, "opt_disc_latent")
  ELSE IF stmt = "step_image" THEN StepOpt(r, "opt_disc_image")
  ELSE IF stmt = "zero_grad_generator" THEN ZeroGrad(r, "opt_generator")
  ELSE IF stmt = "gen_forward" THEN
    [Call(Call(Call(Call(r, "decoder", r.mode), "encoder", r.mode),
      "decoder", r.mode), "encoder", r.mode) EXCEPT
       !.xhat = DecoderShape(batch_size, latent_dim, inp.yb, inp.yw),
       !.zhat = EncoderShape(inp.xb, inp.xc),
       !.xtilde = DecoderShape(EncoderShape(inp.xb, inp.xc), latent_dim, inp.yb, inp.yw),
       !.ztilde = EncoderShape(DecoderShape(batch_size, latent_dim, inp.yb, inp.yw),
                               ImageChannels)]
  ELSE IF stmt = "gen_scores" THEN
    Call(Call(Call(Call(r, "disc_image", r.mode), "disc_latent", r.mode),
      "disc_image", r.mode), "disc_latent", r.mode)
  ELSE IF stmt = "gen_backward" THEN Backward(r, "G", Nets)
  ELSE StepOpt(r, "opt_generator")

\* What raises at statement `stmt`, "none" when it runs.
Raises(stmt, r, inp, failAt) ==
  IF ShapeError(stmt, r, inp) THEN "shape"
  ELSE IF GradError(stmt, r) THEN "grad"
  ELSE IF failAt = stmt THEN "fatal"
  ELSE "none"

\* forward() from statement i on: the statements run in order until one raises.
RECURSIVE RunFrom(_, _, _, _)
RunFrom(i, r, inp, failAt) ==
  IF i > Len(Program) THEN [r |-> r, raised |-> "none", at |-> 0]
  ELSE LET raised == Raises(Program[i], r, inp, failAt)
       IN IF raised # "none" THEN [r |-> r, raised |-> raised, at |-> i]
          ELSE RunFrom(i + 1, Exec(Program[i], r, inp), inp, failAt)

Entry ==
  [params |-> params, grads |-> grads, optSteps |-> optSteps, log |-> <<>>,
   mode |-> grad_enabled, tracked |-> FALSE,
   xhat |-> 0, zhat |-> 0, xtilde |-> 0, ztilde |-> 0]

\* forward(x, y)
forward(inp, failAt) ==
  /\ LET res == RunFrom(1, Entry, inp, failAt)
     IN /\ params' = res.r.params
        /\ grads' = res.r.grads
        /\ optSteps' = res.r.optSteps
        /\ last' = Outcome("forward", res.raised, res.at, res.r.log, inp, -1, FALSE)
  /\ nforward' = nforward + 1
  /\ justSaved' = 0
  /\ UNCHANGED <<dir, files, now, grad_enabled, nsaves>>

\* A step on any of the input shapes, or a step on a well-formed batch in
\* which the runtime fails at one of the fail points.
AnyStep ==
  \/ \E inp \in Inputs : forward(inp, "none")
  \/ \E failAt \in FailPoints : forward(ValidInput, failAt)

Forward == nforward < MaxSteps /\ AnyStep

ForwardTrain == nforward < MaxTrainSteps /\ AnyStep

\* A training step on a well-formed batch in which nothing fails.
TrainStep ==
  /\ nforward < MaxCkptSteps
  /\ forward(ValidInput, "none")

\* sample(y)
sample(inp) ==
  /\ LET bs == inp.yb
         ok == DecoderShape(bs, latent_dim, inp.yb, inp.yw) # 0
         r == IF ok THEN Call(Entry, "decoder", SampleGradMode(grad_enabled)) ELSE Entry
     IN /\ params' = r.params
        /\ grads' = r.grads
        /\ optSteps' = r.optSteps
        /\ last' = Outcome("sample", IF ok THEN "none" ELSE "shape", 0, r.log, inp,
                           -1, FALSE)
  /\ justSaved' = 0
  /\ UNCHANGED <<dir, files, now, grad_enabled, nsaves, nforward>>

Sample ==
  \E yb \in {batch_size + 1}, yw \in {NUM_TYPES, NUM_TYPES + 1} :
    sample(Shape(0, 0, yb, yw))

\* reconstruct(x, y)
reconstruct(inp) ==
  /\ LET zb == EncoderShape(inp.xb, inp.xc)
         r1 == IF zb # 0 THEN Call(Entry, "encoder", ReconstructGradMode(grad_enabled))
               ELSE Entry
         ok == zb # 0 /\ DecoderShape(zb, latent_dim, inp.yb, inp.yw) # 0
         r == IF ok THEN Call(r1, "decoder", ReconstructGradMode(grad_enabled)) ELSE r1
     IN /\ params' = r.params
        /\ grads' = r.grads
        /\ optSteps' = r.optSteps
        /\ last' = Outcome("reconstruct", IF ok THEN "none" ELSE "shape", 0, r.log, inp,
                           -1, FALSE)
  /\ justSaved' = 0
  /\ UNCHANGED <<dir, files, now, grad_enabled, nsaves, nforward>>

Reconstruct ==
  \E inp \in { Shape(batch_size + 1, ImageChannels, batch_size + 1, NUM_TYPES),
               Shape(batch_size + 1, ImageChannels, batch_size, NUM_TYPES) } :
    reconstruct(inp)

\* The caller enters or leaves a torch.no_grad() block of its own.
SetGradEnabled ==
  /\ grad_enabled' = ~ grad_enabled
  /\ UNCHANGED <<dir, files, now, params, grads, optSteps, nsaves, nforward,
                 justSaved, last>>

\* ------------------------------------------------------------------ system
Init ==
  /\ dir \in Dirs
  /\ files = <<>>
  /\ now = 0
  /\ params = [n \in Nets |-> 0]
  /\ grads = [n \in Nets |-> {}]
  /\ optSteps = [o \in Opts |-> 0]
  /\ grad_enabled = TRUE
  /\ nsaves = 0
  /\ nforward = 0
  /\ justSaved = 0
  /\ last = [op |-> "init", raised |-> "none", log |-> <<>>, inp |-> NoInput,
             epoch |-> -1, missing |-> FALSE,
             pre |-> [n \in Nets |-> 0], preOpt |-> [o \in Opts |-> 0],
             preGrads |-> [n \in Nets |-> {}], mode |-> TRUE, afterSave |-> 0]

Next == Forward \/ Sample \/ Reconstruct \/ SetGradEnabled \/ Save \/ load

Spec == Init /\ [][Next]_vars

NextTrain == ForwardTrain \/ Sample \/ Reconstruct \/ SetGradEnabled

SpecTrain == Init /\ [][NextTrain]_vars

NextCkpt == SaveCkpt \/ load \/ TrainStep

SpecCkpt == Init /\ [][NextCkpt]_vars

NextInOrder == SaveInOrder \/ load

SpecInOrder == Init /\ [][NextInOrder]_vars

\* ------------------------------------------------------------------ claims
Epochs(fs) == {f[1] : f \in DOMAIN fs}
ForwardEvents(log) == {i \in 1..Len(log) : log[i].ev = "forward"}
StepEvents(log) == {i \in 1..Len(log) : log[i].ev = "step"}

\* C1: from an empty directory, save() for epochs 1..5 in order leaves exactly
\* the twelve files of epochs 3, 4 and 5.
C1_InOrderSavesKeepLastThree ==
  nsaves = SeqEpochs =>
    DOMAIN files = UNION {EpochFiles(e) : e \in (SeqEpochs - 2)..SeqEpochs}

\* C2: save(dir, epoch) followed immediately by load(dir), dir non-empty, does
\* not raise, selects the epoch just saved and leaves the four sub-networks as
\* they were before the save.
C2_SaveThenLoadRestores ==
  (last.op = "load" /\ last.afterSave # 0 /\ Len(dir) > 0) =>
    /\ last.raised = "none"
    /\ last.epoch = last.afterSave
    /\ params = last.pre

\* C3: when a file of the epoch load() selects is missing, load() raises and
\* has changed none of the four sub-networks.
C3_NoPartialRestore ==
  (last.op = "load" /\ last.epoch # -1 /\ last.missing) =>
    /\ last.raised # "none"
    /\ params = last.pre

\* C4: after any sequence of save() calls every epoch with a file on disk has
\* all four of its files, and at most three epochs are on disk.
C4_EpochsCompleteAtMostThree ==
  /\ \A e \in Epochs(files) : EpochFiles(e) \subseteq DOMAIN files
  /\ Cardinality(Epochs(files)) <= 3

\* C5: a training step either returns with each of the three optimizers
\* stepped once, or raises with no optimizer stepped and every parameter as
\* at step entry.
C5_StepAllOrNothing ==
  last.op = "forward" =>
    \/ /\ last.raised = "none"
       /\ \A o \in Opts : optSteps[o] = last.preOpt[o] + 1
    \/ /\ last.raised # "none"
       /\ optSteps = last.preOpt
       /\ params = last.pre

ShapeViolation(inp) ==
  \/ inp.xc # ImageChannels
  \/ inp.yw # NUM_TYPES
  \/ inp.xb # batch_size
  \/ inp.yb # batch_size

\* C6: a training step called with a wrong channel count, attribute width or
\* batch size raises before any optimizer has stepped and changes no parameter.
C6_ShapeViolationRaisesBeforeStep ==
  (last.op = "forward" /\ ShapeViolation(last.inp)) =>
    /\ last.raised # "none"
    /\ StepEvents(last.log) = {}
    /\ optSteps = last.preOpt
    /\ params = last.pre

\* An image batch of the wrong size with a well-formed attribute batch raised
\* at x_tilde, in a step that follows a completed one.
C6_Witness ==
  /\ last.op = "forward"
  /\ last.inp.xb # batch_size /\ last.inp.yb = batch_size
  /\ last.raised = "shape" /\ Program[last.at] = "x_tilde"
  /\ last.preOpt["opt_generator"] = 1

\* C7: sample(y) steps no optimizer, changes no parameter and runs its decode
\* with gradient tracking off.
C7_SampleReadOnlyNoGrad ==
  last.op = "sample" =>
    /\ optSteps = last.preOpt
    /\ params = last.pre
    /\ StepEvents(last.log) = {}
    /\ \A i \in ForwardEvents(last.log) : ~ last.log[i].mode

\* sample() decoded, called with gradient tracking on, after a completed
\* training step and a save.
C7_Witness ==
  /\ last.op = "sample" /\ last.raised = "none" /\ Len(last.log) = 1
  /\ last.mode
  /\ optSteps["opt_generator"] = 1
  /\ nsaves > 0

\* C8 as stated: reconstruct(x, y) runs its encode and decode with gradient
\* tracking off, whatever the caller's gradient mode.
C8_ReconstructNoGrad ==
  last.op = "reconstruct" => \A i \in ForwardEvents(last.log) : ~ last.log[i].mode

\* C8 amended: reconstruct(x, y) runs its encode and decode in the caller's
\* gradient mode: tracking is off in them exactly when it is off in the caller.
C8_ReconstructCallerMode ==
  last.op = "reconstruct" =>
    \A i \in ForwardEvents(last.log) : last.log[i].mode = last.mode

\* reconstruct() encoded and decoded, called with gradient tracking on.
C8_Witness ==
  /\ last.op = "reconstruct" /\ last.raised = "none" /\ Len(last.log) = 2
  /\ last.mode

IsOrderEvent(e) == e.ev \in {"zero_grad", "backward", "step"}
OrderOf(log) ==
  LET ord == SelectSeq(log, IsOrderEvent)
  IN [i \in 1..Len(ord) |-> <<ord[i].ev, ord[i].who>>]

\* The forward events of the generator phase: those after its zero_grad.
GenPhaseStart(log) ==
  CHOOSE i \in 1..Len(log) : log[i].ev = "zero_grad" /\ log[i].who = "opt_generator"

\* C9: a completed step zeroes the discriminator gradients, runs Phase D's
\* backward, steps the two discriminator optimizers, zeroes the generator
\* gradients, runs Phase G's backward and steps the generator optimizer; each
\* optimizer steps once, Phase D changes discriminator parameters only, Phase G
\* encoder and decoder parameters only, and Phase G's forward passes read the
\* discriminator parameters Phase D has just updated.
C9_StepOrder ==
  (last.op = "forward" /\ last.raised = "none") =>
    /\ OrderOf(last.log) =
         << <<"zero_grad", "opt_disc_latent">>, <<"zero_grad", "opt_disc_image">>,
            <<"backward", "D">>,
            <<"step", "opt_disc_latent">>, <<"step", "opt_disc_image">>,
            <<"zero_grad", "opt_generator">>,
            <<"backward", "G">>,
            <<"step", "opt_generator">> >>
    /\ \A o \in Opts : optSteps[o] = last.preOpt[o] + 1
    /\ \A i \in StepEvents(last.log) : last.log[i].nets = OptParams(last.log[i].who)
    /\ \A n \in Nets : params[n] = last.pre[n] + 1
    /\ \A i \in ForwardEvents(last.log) :
         (i > GenPhaseStart(last.log) /\ last.log[i].who \in Discriminators) =>
           /\ last.log[i].ver = last.pre[last.log[i].who] + 1
           /\ \E j \in StepEvents(last.log) : j < i /\ last.log[i].who \in last.log[j].nets
    /\ \A i \in ForwardEvents(last.log) :
         (i < GenPhaseStart(last.log)) => last.log[i].ver = last.pre[last.log[i].who]

\* The second training step of a run completed.
C9_Witness ==
  /\ last.op = "forward" /\ last.raised = "none"
  /\ nforward = 2
  /\ last.preOpt["opt_disc_image"] = 1

PhaseOf(opt) == IF opt = "opt_generator" THEN "G" ELSE "D"

\* C10: whenever an optimizer steps, the gradient it applies was accumulated
\* only by the backward pass of the same phase of the same step, and Phase D's
\* backward deposits no gradient on encoder or decoder parameters.
C10_StepAppliesOwnPhaseGradient ==
  last.op = "forward" =>
    \A i \in 1..Len(last.log) :
      /\ last.log[i].ev = "step" =>
           last.log[i].src = {<<nforward, PhaseOf(last.log[i].who)>>}
      /\ (last.log[i].ev = "backward" /\ last.log[i].who = "D") =>
           last.log[i].nets \cap Generators = {}

\* A step completed after a step that aborted between Phase G's backward and
\* the generator optimizer's step: the discriminators entered it holding the
\* gradient Phase G had deposited.
C10_Witness ==
  /\ last.op = "forward" /\ last.raised = "none"
  /\ <<1, "G">> \in last.preGrads["disc_image"]
  /\ <<1, "G">> \in last.preGrads["disc_latent"]
  /\ last.preOpt["opt_generator"] = 0
  /\ last.preOpt["opt_disc_image"] = 1

====
